---- MODULE Spec2Model ----
(***************************************************************************)
(* A model of the Result library (OkImpl / ErrImpl and the Result          *)
(* namespace helpers).  The heap holds the Result instances created so     *)
(* far, `last` records what the most recent call did (what it returned or  *)
(* threw, which caller-supplied functions it invoked and with what), and   *)
(* `task` is the state of an in-flight Result.wrapAsync call.              *)
(***************************************************************************)
EXTENDS Integers, Sequences, FiniteSets, TLC

VARIABLES heap, last, task

vars == <<heap, last, task>>

\* Bounds of the model.
MaxObjs == 2
MaxLen == 2

(***************************************************************************)
(* JavaScript values.  Every value is a record of the same shape: t is the *)
(* kind, n the number, str the characters of a string (or the message of   *)
(* an Error), items the elements of an array, ref the heap address of a    *)
(* Result instance.                                                        *)
(***************************************************************************)
JsValue(t, n, str, items, ref) ==
    [t |-> t, n |-> n, str |-> str, items |-> items, ref |-> ref]

Undefined == JsValue("undefined", 0, <<>>, <<>>, 0)
Null == JsValue("null", 0, <<>>, <<>>, 0)
Num(n) == JsValue("number", n, <<>>, <<>>, 0)
Str(s) == JsValue("string", 0, s, <<>>, 0)
Arr(xs) == JsValue("array", 0, <<>>, xs, 0)
\* a Symbol() primitive
Sym == JsValue("symbol", 0, <<>>, <<>>, 0)
\* a plain object {}
Obj == JsValue("object", 0, <<>>, <<>>, 0)
\* an object whose [Symbol.iterator] property is not a function
BadIter == JsValue("baditer", 0, <<>>, <<>>, 0)
\* a foreign object with the fields ok, err, value and the methods of a Result
Lookalike == JsValue("lookalike", 0, <<>>, <<>>, 0)
\* new Error(msg) and the engine's TypeError(msg)
ErrorObj(msg) == JsValue("Error", 0, msg, <<>>, 0)
TypeErrorObj(msg) == JsValue("TypeError", 0, msg, <<>>, 0)
\* a reference to the Result instance at heap address a
Ref(a) == JsValue("result", 0, <<>>, <<>>, a)

\* String literals, as sequences of characters.
sUnwrapPrefix ==
    <<"T", "r", "i", "e", "d", " ", "t", "o", " ", "u", "n", "w", "r", "a", "p",
      " ", "a", "n", " ", "E", "r", "r", ":", "\n">>
sExpectInfix == <<" ", "-", " ", "E", "r", "r", "o", "r", ":", "\n">>
sUndefined == <<"u", "n", "d", "e", "f", "i", "n", "e", "d">>
sNull == <<"n", "u", "l", "l">>
sObjectObject ==
    <<"[", "o", "b", "j", "e", "c", "t", " ", "O", "b", "j", "e", "c", "t", "]">>
sErrorColon == <<"E", "r", "r", "o", "r", ":", " ">>
sSymbolToString ==
    <<"C", "a", "n", "n", "o", "t", " ", "c", "o", "n", "v", "e", "r", "t", " ",
      "a", " ", "S", "y", "m", "b", "o", "l", " ", "v", "a", "l", "u", "e", " ",
      "t", "o", " ", "a", " ", "s", "t", "r", "i", "n", "g">>
sNotAFunction ==
    <<"i", "s", " ", "n", "o", "t", " ", "a", " ", "f", "u", "n", "c", "t", "i",
      "o", "n">>
sObject == <<"o", "b", "j", "e", "c", "t">>
sNumber == <<"n", "u", "m", "b", "e", "r">>
sString == <<"s", "t", "r", "i", "n", "g">>
sSymbol == <<"s", "y", "m", "b", "o", "l">>
sError == <<"E", "r", "r", "o", "r">>
sBoom == <<"b", "o", "o", "m">>
sBoolean == <<"b", "o", "o", "l", "e", "a", "n">>
sTrue == <<"t", "r", "u", "e">>
sFalse == <<"f", "a", "l", "s", "e">>
sShouldPanic == <<"S", "h", "o", "u", "l", "d", " ", "p", "a", "n", "i", "c">>

\* The decimal digits of a natural number.
Digit(d) == <<"0", "1", "2", "3", "4", "5", "6", "7", "8", "9">>[d + 1]

RECURSIVE Digits(_)
Digits(n) == IF n < 10 THEN <<Digit(n)>> ELSE Digits(n \div 10) \o <<Digit(n % 10)>>

\* Array.prototype.join(",") of an array of numbers.
RECURSIVE Join(_)
Join(xs) ==
    IF xs = <<>> THEN <<>>
    ELSE IF Len(xs) = 1 THEN Digits(xs[1])
    ELSE Digits(xs[1]) \o <<",">> \o Join(Tail(xs))

(***************************************************************************)
(* The string conversion a template literal `${v}` applies (ToString).     *)
(* It is partial: a Symbol cannot be converted and the engine throws a     *)
(* TypeError instead.  The result is [ok, s]: ok says the conversion       *)
(* produced the string s, otherwise s is the TypeError's message.          *)
(***************************************************************************)
TemplateToString(v) ==
    CASE v.t = "undefined" -> [ok |-> TRUE, s |-> sUndefined]
      [] v.t = "null" -> [ok |-> TRUE, s |-> sNull]
      [] v.t = "number" -> [ok |-> TRUE, s |-> Digits(v.n)]
      [] v.t = "boolean" -> [ok |-> TRUE, s |-> IF v.n = 1 THEN sTrue ELSE sFalse]
      [] v.t = "string" -> [ok |-> TRUE, s |-> v.str]
      [] v.t = "array" -> [ok |-> TRUE, s |-> Join(v.items)]
      [] v.t = "symbol" -> [ok |-> FALSE, s |-> sSymbolToString]
      [] v.t \in {"Error", "TypeError"} ->
            [ok |-> TRUE, s |-> (IF v.t = "Error" THEN <<>> ELSE <<"T", "y", "p", "e">>)
                                  \o sErrorColon \o v.str]
      [] OTHER -> [ok |-> TRUE, s |-> sObjectObject]

\* The typeof operator.
TypeOf(v) ==
    CASE v.t = "undefined" -> sUndefined
      [] v.t = "number" -> sNumber
      [] v.t = "boolean" -> sBoolean
      [] v.t = "string" -> sString
      [] v.t = "symbol" -> sSymbol
      [] OTHER -> sObject


Bool(b) == JsValue("boolean", IF b THEN 1 ELSE 0, <<>>, <<>>, 0)
\* the promise object an async function returns to its caller
PromiseObj == JsValue("promise", 0, <<>>, <<>>, 0)

(***************************************************************************)
(* What a call did: the heap after it, whether it returned or threw and    *)
(* the value returned or thrown, how often it invoked the first and the    *)
(* second caller-supplied function (fcalls, gcalls), the argument each was *)
(* given (farg, garg), what the first returned (fret), and the elements    *)
(* an iteration produced.                                                  *)
(***************************************************************************)
Effect(h, outcome, ret) ==
    [heap |-> h, outcome |-> outcome, ret |-> ret,
     fcalls |-> 0, farg |-> Undefined, fret |-> Undefined,
     gcalls |-> 0, garg |-> Undefined, yielded |-> <<>>]

\* The caller-supplied functions of map, mapErr and Result.match.
Mappers == {"typeof", "throws"}

CallMapper(f, v) ==
    CASE f = "typeof" -> [outcome |-> "return", val |-> Str(TypeOf(v))]
      [] f = "throws" -> [outcome |-> "throw", val |-> ErrorObj(sBoom)]

\* Instances.
OkImpl_new(value) == [cls |-> "OkImpl", ok |-> TRUE, err |-> FALSE, value |-> value]

ErrImpl_new(value) == [cls |-> "ErrImpl", ok |-> FALSE, err |-> TRUE, value |-> value]

\* The factories: allocate the instance, return a reference to it.
ok(h, val) == [heap |-> Append(h, OkImpl_new(val)), ref |-> Ref(Len(h) + 1)]

err(h, val) == [heap |-> Append(h, ErrImpl_new(val)), ref |-> Ref(Len(h) + 1)]

(***************************************************************************)
(* OkImpl.  h is the heap, a the address of the receiver (this).           *)
(***************************************************************************)

\* Object(value) has the property Symbol.iterator (own or inherited):
\* strings and arrays inherit one, Object(null) and Object(undefined) are
\* empty objects, the wrappers of numbers and symbols have none.  (No payload
\* of this model is itself a Result, which would have one.)
HasIteratorProperty(v) == v.t \in {"string", "array", "baditer"}

\* The elements the payload's own iterator produces.
Elements(v) ==
    CASE v.t = "string" -> [i \in 1..Len(v.str) |-> Str(<<v.str[i]>>)]
      [] v.t = "array" -> [i \in 1..Len(v.items) |-> Num(v.items[i])]
      [] OTHER -> <<>>

\* obj[Symbol.iterator](): calling a property that is not a function throws.
CallIteratorProperty(h, v) ==
    IF v.t = "baditer"
    THEN Effect(h, "throw", TypeErrorObj(sNotAFunction))
    ELSE [Effect(h, "return", Undefined) EXCEPT !.yielded = Elements(v)]

\* The iterator whose first next() reports done.
EmptyIterator(h) == Effect(h, "return", Undefined)

OkImpl_iterator(h, a) ==
    IF HasIteratorProperty(h[a].value)
    THEN CallIteratorProperty(h, h[a].value)
    ELSE EmptyIterator(h)

OkImpl_isOk(h, a) == Effect(h, "return", Bool(h[a].ok))

OkImpl_isErr(h, a) == Effect(h, "return", Bool(h[a].err))

OkImpl_unwrap(h, a) == Effect(h, "return", h[a].value)

OkImpl_unwrapOr(h, a, fallback) == Effect(h, "return", h[a].value)

OkImpl_expect(h, a, msg) == Effect(h, "return", h[a].value)

\* An expectErr that builds its message as expect does, payload included.
OkImpl_expectErr_likeExpect(h, a, msg) ==
    Effect(h, "throw", ErrorObj(msg \o sExpectInfix \o TemplateToString(h[a].value).s))

OkImpl_expectErr(h, a, msg) == Effect(h, "throw", ErrorObj(msg))

\* A map that stores the mapped payload in the receiver and returns it.
OkImpl_map_inPlace(h, a, mapper) ==
    LET r == CallMapper(mapper, h[a].value)
    IN  IF r.outcome = "throw"
        THEN [Effect(h, "throw", r.val) EXCEPT !.fcalls = 1, !.farg = h[a].value]
        ELSE [Effect([h EXCEPT ![a].value = r.val], "return", Ref(a))
                EXCEPT !.fcalls = 1, !.farg = h[a].value, !.fret = r.val]

\* A map that catches what the mapper raises and returns it in an Err.
OkImpl_map_catches(h, a, mapper) ==
    LET r == CallMapper(mapper, h[a].value)
        n == IF r.outcome = "throw" THEN err(h, r.val) ELSE ok(h, r.val)
    IN  [Effect(n.heap, "return", n.ref)
            EXCEPT !.fcalls = 1, !.farg = h[a].value,
                   !.fret = IF r.outcome = "return" THEN r.val ELSE Undefined]

OkImpl_map(h, a, mapper) ==
    LET r == CallMapper(mapper, h[a].value)
        n == ok(h, r.val)
    IN  IF r.outcome = "throw"
        THEN [Effect(h, "throw", r.val) EXCEPT !.fcalls = 1, !.farg = h[a].value]
        ELSE [Effect(n.heap, "return", n.ref)
                EXCEPT !.fcalls = 1, !.farg = h[a].value, !.fret = r.val]

\* A mapErr that returns a copy of the receiver.
OkImpl_mapErr_copies(h, a, mapper) ==
    LET n == ok(h, h[a].value)
    IN  Effect(n.heap, "return", n.ref)

OkImpl_mapErr(h, a, mapper) == Effect(h, "return", Ref(a))

\* The caller-supplied functions of andThen: each returns a Result.
\* "okTypeof" is v => ok(typeof v), "captured" returns a Result the closure
\* holds (the first one created), "throws" raises.
Binders == {"okTypeof", "captured", "throws"}

CallBinder(h, f, v) ==
    CASE f = "okTypeof" ->
            LET n == ok(h, Str(TypeOf(v)))
            IN  [heap |-> n.heap, outcome |-> "return", val |-> n.ref]
      [] f = "captured" -> [heap |-> h, outcome |-> "return", val |-> Ref(1)]
      [] f = "throws" -> [heap |-> h, outcome |-> "throw", val |-> ErrorObj(sBoom)]

\* An andThen that wraps what the mapper returned in a new Ok, as map does.
OkImpl_andThen_wraps(h, a, mapper) ==
    LET r == CallBinder(h, mapper, h[a].value)
        n == ok(r.heap, r.val)
    IN  IF r.outcome = "throw"
        THEN [Effect(h, "throw", r.val) EXCEPT !.fcalls = 1, !.farg = h[a].value]
        ELSE [Effect(n.heap, "return", n.ref)
                EXCEPT !.fcalls = 1, !.farg = h[a].value, !.fret = r.val]

OkImpl_andThen(h, a, mapper) ==
    LET r == CallBinder(h, mapper, h[a].value)
    IN  [Effect(r.heap, r.outcome, r.val)
            EXCEPT !.fcalls = 1, !.farg = h[a].value,
                   !.fret = IF r.outcome = "return" THEN r.val ELSE Undefined]

(***************************************************************************)
(* ErrImpl.                                                                *)
(***************************************************************************)
ErrImpl_iterator(h, a) == EmptyIterator(h)

ErrImpl_isOk(h, a) == Effect(h, "return", Bool(h[a].ok))

ErrImpl_isErr(h, a) == Effect(h, "return", Bool(h[a].err))

\* throw new Error(`Tried to unwrap an Err:\n${this.value}`)
ErrImpl_unwrap(h, a) ==
    LET s == TemplateToString(h[a].value)
    IN  IF s.ok
        THEN Effect(h, "throw", ErrorObj(sUnwrapPrefix \o s.s))
        ELSE Effect(h, "throw", TypeErrorObj(s.s))

\* An unwrapOr that hands out the error payload.
ErrImpl_unwrapOr_payload(h, a, fallback) == Effect(h, "return", h[a].value)

ErrImpl_unwrapOr(h, a, fallback) == Effect(h, "return", fallback)

\* throw new Error(`${msg} - Error:\n${this.value}`)
ErrImpl_expect(h, a, msg) ==
    LET s == TemplateToString(h[a].value)
    IN  IF s.ok
        THEN Effect(h, "throw", ErrorObj(msg \o sExpectInfix \o s.s))
        ELSE Effect(h, "throw", TypeErrorObj(s.s))

ErrImpl_expectErr(h, a, msg) == Effect(h, "return", h[a].value)

\* A map that applies the mapper to the error payload.
ErrImpl_map_applies(h, a, mapper) ==
    LET r == CallMapper(mapper, h[a].value)
        n == err(h, r.val)
    IN  IF r.outcome = "throw"
        THEN [Effect(h, "throw", r.val) EXCEPT !.fcalls = 1, !.farg = h[a].value]
        ELSE [Effect(n.heap, "return", n.ref)
                EXCEPT !.fcalls = 1, !.farg = h[a].value, !.fret = r.val]

ErrImpl_map(h, a, mapper) == Effect(h, "return", Ref(a))

ErrImpl_mapErr(h, a, mapper) ==
    LET r == CallMapper(mapper, h[a].value)
        n == err(h, r.val)
    IN  IF r.outcome = "throw"
        THEN [Effect(h, "throw", r.val) EXCEPT !.fcalls = 1, !.farg = h[a].value]
        ELSE [Effect(n.heap, "return", n.ref)
                EXCEPT !.fcalls = 1, !.farg = h[a].value, !.fret = r.val]

ErrImpl_andThen(h, a, op) == Effect(h, "return", Ref(a))

\* Method dispatch on the receiver's class.
IsOkImpl(h, a) == h[a].cls = "OkImpl"

iterator(h, a) == IF IsOkImpl(h, a) THEN OkImpl_iterator(h, a) ELSE ErrImpl_iterator(h, a)
isOk(h, a) == IF IsOkImpl(h, a) THEN OkImpl_isOk(h, a) ELSE ErrImpl_isOk(h, a)
isErr(h, a) == IF IsOkImpl(h, a) THEN OkImpl_isErr(h, a) ELSE ErrImpl_isErr(h, a)
unwrap(h, a) == IF IsOkImpl(h, a) THEN OkImpl_unwrap(h, a) ELSE ErrImpl_unwrap(h, a)
unwrapOr(h, a, fallback) ==
    IF IsOkImpl(h, a) THEN OkImpl_unwrapOr(h, a, fallback) ELSE ErrImpl_unwrapOr(h, a, fallback)
expect(h, a, msg) ==
    IF IsOkImpl(h, a) THEN OkImpl_expect(h, a, msg) ELSE ErrImpl_expect(h, a, msg)
expectErr(h, a, msg) ==
    IF IsOkImpl(h, a) THEN OkImpl_expectErr(h, a, msg) ELSE ErrImpl_expectErr(h, a, msg)
map(h, a, mapper) ==
    IF IsOkImpl(h, a) THEN OkImpl_map(h, a, mapper) ELSE ErrImpl_map(h, a, mapper)
mapErr(h, a, mapper) ==
    IF IsOkImpl(h, a) THEN OkImpl_mapErr(h, a, mapper) ELSE ErrImpl_mapErr(h, a, mapper)
andThen(h, a, mapper) ==
    IF IsOkImpl(h, a) THEN OkImpl_andThen(h, a, mapper) ELSE ErrImpl_andThen(h, a, mapper)

(***************************************************************************)
(* The Result namespace.                                                   *)
(***************************************************************************)

\* A caller-supplied operation op: it returns op.val or throws op.val.
CallOp(op) == [outcome |-> op.kind, val |-> op.val]

\* A wrap that keeps the message of what op raised instead of the value.
Result_wrap_stringifies(h, op) ==
    LET r == CallOp(op)
        n == IF r.outcome = "return"
             THEN ok(h, r.val)
             ELSE err(h, Str(TemplateToString(r.val).s))
    IN  [Effect(n.heap, "return", n.ref) EXCEPT !.fcalls = 1]

Result_wrap(h, op) ==
    LET r == CallOp(op)
        n == IF r.outcome = "return" THEN ok(h, r.val) ELSE err(h, r.val)
    IN  [Effect(n.heap, "return", n.ref) EXCEPT !.fcalls = 1]

\* val instanceof cls: decided by the prototype chain, which only the
\* instances the two constructors made have.
InstanceOf(h, val, cls) == val.t = "result" /\ h[val.ref].cls = cls

\* An isResult that looks for the fields of a Result instead of its class.
Result_isResult_duck(h, val) ==
    IF val.t \in {"undefined", "null"}
    THEN Effect(h, "throw", TypeErrorObj(sNull))
    ELSE Effect(h, "return", Bool(val.t \in {"result", "lookalike"}))

Result_isResult(h, val) ==
    Effect(h, "return", Bool(InstanceOf(h, val, "OkImpl") \/ InstanceOf(h, val, "ErrImpl")))

\* The handlers of Result.match: "none" is an omitted handler.
Handlers == {"none", "typeof"}

\* A match that hands the handlers the Result itself, not its payload.
Result_match_instance(h, a, okFn, errFn) ==
    IF isOk(h, a).ret = Bool(TRUE)
    THEN IF okFn = "none"
         THEN Effect(h, "return", Undefined)
         ELSE LET r == CallMapper(okFn, Ref(a))
              IN  [Effect(h, r.outcome, r.val)
                      EXCEPT !.fcalls = 1, !.farg = Ref(a), !.fret = r.val]
    ELSE IF errFn = "none"
         THEN Effect(h, "return", Undefined)
         ELSE LET r == CallMapper(errFn, Ref(a))
              IN  [Effect(h, r.outcome, r.val)
                      EXCEPT !.gcalls = 1, !.garg = Ref(a)]

Result_match(h, a, okFn, errFn) ==
    IF isOk(h, a).ret = Bool(TRUE)
    THEN IF okFn = "none"
         THEN Effect(h, "return", Undefined)
         ELSE LET u == unwrap(h, a)
                  r == CallMapper(okFn, u.ret)
              IN  IF u.outcome = "throw"
                  THEN u
                  ELSE [Effect(h, r.outcome, r.val)
                          EXCEPT !.fcalls = 1, !.farg = u.ret, !.fret = r.val]
    ELSE IF errFn = "none"
         THEN Effect(h, "return", Undefined)
         ELSE LET r == CallMapper(errFn, h[a].value)
              IN  [Effect(h, r.outcome, r.val)
                      EXCEPT !.gcalls = 1, !.garg = h[a].value]

(***************************************************************************)
(* Result.wrapAsync.  The async function runs synchronously up to its      *)
(* await: op() is invoked; if it throws, the catch block returns err(e)    *)
(* and the returned promise is fulfilled at once.  Otherwise the function  *)
(* is suspended on op's promise; when that promise has settled the         *)
(* function is resumed, returns ok(val) or (through catch) err(e), and     *)
(* the returned promise is fulfilled with that Result.                     *)
(* task.op is the state of op's promise and task.val what it settled with. *)
(* Both operators give the heap, the task, and how the promise wrapAsync   *)
(* returned stands after the step: promise is "pending", "fulfilled" or    *)
(* "rejected", settled is the value it was settled with, and opstate the   *)
(* state op's promise was in when the step ran.                            *)
(***************************************************************************)
NoTask == [pc |-> "idle", op |-> "none", val |-> Undefined]

Result_wrapAsync_call(h, op) ==
    IF op.kind = "throw"
    THEN LET n == err(h, op.val)
         IN  [heap |-> n.heap, task |-> NoTask, opstate |-> "threw",
              promise |-> "fulfilled", settled |-> n.ref]
    ELSE [heap |-> h,
          task |-> [pc |-> "awaiting", op |-> op.kind, val |-> op.val],
          opstate |-> op.kind, promise |-> "pending", settled |-> Undefined]

\* A wrapAsync without the catch block: a rejection of op's promise escapes.
Result_wrapAsync_resume_noCatch(h, t) ==
    LET n == ok(h, t.val)
    IN  IF t.op = "resolved"
        THEN [heap |-> n.heap, task |-> NoTask, opstate |-> t.op,
              promise |-> "fulfilled", settled |-> n.ref]
        ELSE [heap |-> h, task |-> NoTask, opstate |-> t.op,
              promise |-> "rejected", settled |-> t.val]

Result_wrapAsync_resume(h, t) ==
    LET n == IF t.op = "resolved" THEN ok(h, t.val) ELSE err(h, t.val)
    IN  [heap |-> n.heap, task |-> NoTask, opstate |-> t.op,
         promise |-> "fulfilled", settled |-> n.ref]

(***************************************************************************)
(* The inputs the calls are made with.                                     *)
(***************************************************************************)
Desc(n) == [i \in 1..n |-> n + 1 - i]

\* Payloads handed to ok, err and returned or thrown by wrapped operations.
Payloads ==
    {Undefined, Null, Num(42), Str(sError), Arr(Desc(MaxLen)), Sym, BadIter}

Msgs == {sShouldPanic, <<>>}
Fallbacks == {Num(0), Null}
Ops == [kind : {"return", "throw"}, val : {Num(42), ErrorObj(sError)}]
\* What op does when wrapAsync invokes it: it throws, or it returns a promise
\* that is still pending or has already settled.
AsyncOps ==
    {[kind |-> "throw", val |-> ErrorObj(sError)],
     [kind |-> "pending", val |-> Undefined],
     [kind |-> "resolved", val |-> Num(42)],
     [kind |-> "rejected", val |-> ErrorObj(sError)]}
Settlements ==
    {[kind |-> "resolved", val |-> Num(42)],
     [kind |-> "resolved", val |-> Undefined],
     [kind |-> "rejected", val |-> ErrorObj(sError)]}

Addrs == 1..Len(heap)
Refs == {Ref(a) : a \in Addrs}
AnyValues == {Undefined, Null, Num(1), Str(<<"x">>), Obj, Lookalike} \cup Refs

\* One slot of the heap is kept for the Result of a suspended wrapAsync.
Reserved == IF task.pc = "awaiting" THEN 1 ELSE 0
Fits(e) == Len(e.heap) + Reserved <= MaxObjs

NoCall ==
    [op |-> "none", recv |-> 0, arg |-> Undefined, f |-> "none", g |-> "none",
     outcome |-> "none", ret |-> Undefined,
     fcalls |-> 0, farg |-> Undefined, fret |-> Undefined,
     gcalls |-> 0, garg |-> Undefined, yielded |-> <<>>]

\* The call op(arg, f, g) on receiver recv had the effect e.  The caller makes
\* one call at a time: it takes the outcome of a call (Observe) before the next.
Call(op, recv, arg, f, g, e) ==
    /\ last = NoCall
    /\ Fits(e)
    /\ heap' = e.heap
    /\ last' = [op |-> op, recv |-> recv, arg |-> arg, f |-> f, g |-> g,
                outcome |-> e.outcome, ret |-> e.ret,
                fcalls |-> e.fcalls, farg |-> e.farg, fret |-> e.fret,
                gcalls |-> e.gcalls, garg |-> e.garg, yielded |-> e.yielded]
    /\ UNCHANGED task

Init ==
    /\ heap = <<>>
    /\ last = NoCall
    /\ task = NoTask

DoOk ==
    \E v \in Payloads :
        LET n == ok(heap, v)
        IN  Call("ok", 0, v, "none", "none", Effect(n.heap, "return", n.ref))

DoErr ==
    \E v \in Payloads :
        LET n == err(heap, v)
        IN  Call("err", 0, v, "none", "none", Effect(n.heap, "return", n.ref))

DoIsOk == \E a \in Addrs : Call("isOk", a, Undefined, "none", "none", isOk(heap, a))

DoIsErr == \E a \in Addrs : Call("isErr", a, Undefined, "none", "none", isErr(heap, a))

DoUnwrap == \E a \in Addrs : Call("unwrap", a, Undefined, "none", "none", unwrap(heap, a))

DoUnwrapOr ==
    \E a \in Addrs, fb \in Fallbacks :
        Call("unwrapOr", a, fb, "none", "none", unwrapOr(heap, a, fb))

DoExpect ==
    \E a \in Addrs, msg \in Msgs :
        Call("expect", a, Str(msg), "none", "none", expect(heap, a, msg))

DoExpectErr ==
    \E a \in Addrs, msg \in Msgs :
        Call("expectErr", a, Str(msg), "none", "none", expectErr(heap, a, msg))

DoMap ==
    \E a \in Addrs, f \in Mappers :
        Call("map", a, Undefined, f, "none", map(heap, a, f))

DoMapErr ==
    \E a \in Addrs, f \in Mappers :
        Call("mapErr", a, Undefined, f, "none", mapErr(heap, a, f))

DoAndThen ==
    \E a \in Addrs, f \in Binders :
        Call("andThen", a, Undefined, f, "none", andThen(heap, a, f))

\* [...r]: obtain the iterator of the Result and step it until it is done.
DoIterate == \E a \in Addrs : Call("iterate", a, Undefined, "none", "none", iterator(heap, a))

DoWrap ==
    \E op \in Ops : Call("wrap", 0, op.val, op.kind, "none", Result_wrap(heap, op))

DoIsResult ==
    \E v \in AnyValues :
        Call("isResult", 0, v, "none", "none", Result_isResult(heap, v))

DoMatch ==
    \E a \in Addrs, okFn \in Handlers, errFn \in Handlers :
        Call("match", a, Undefined, okFn, errFn, Result_match(heap, a, okFn, errFn))

\* Result.wrapAsync(op) is called; it returns a promise.
WrapAsyncCall ==
    \E op \in AsyncOps :
        LET r == Result_wrapAsync_call(heap, op)
        IN  /\ last = NoCall
            /\ task.pc = "idle"
            /\ Len(heap) + 1 <= MaxObjs
            /\ heap' = r.heap
            /\ task' = r.task
            /\ last' = [NoCall EXCEPT !.op = "wrapAsync", !.arg = op.val, !.f = r.opstate,
                                      !.outcome = r.promise, !.ret = r.settled,
                                      !.fcalls = 1]

\* The environment settles the promise op returned.
OpSettles ==
    \E s \in Settlements :
        /\ task.pc = "awaiting"
        /\ task.op = "pending"
        /\ task' = [task EXCEPT !.op = s.kind, !.val = s.val]
        /\ UNCHANGED <<heap, last>>

\* The event loop resumes the suspended wrapAsync once op's promise has settled.
WrapAsyncResume ==
    LET r == Result_wrapAsync_resume(heap, task)
    IN  /\ task.pc = "awaiting"
        /\ task.op \in {"resolved", "rejected"}
        /\ heap' = r.heap
        /\ task' = r.task
        /\ last' = [NoCall EXCEPT !.op = "wrapAsync", !.arg = task.val, !.f = r.opstate,
                                  !.outcome = r.promise, !.ret = r.settled]

\* The caller has taken what its last call returned or threw.
Observe ==
    /\ last # NoCall
    /\ last' = NoCall
    /\ UNCHANGED <<heap, task>>

Next ==
    \/ DoOk
    \/ DoErr
    \/ DoIsOk
    \/ DoIsErr
    \/ DoUnwrap
    \/ DoUnwrapOr
    \/ DoExpect
    \/ DoExpectErr
    \/ DoMap
    \/ DoMapErr
    \/ DoAndThen
    \/ DoIterate
    \/ DoWrap
    \/ DoIsResult
    \/ DoMatch
    \/ WrapAsyncCall
    \/ OpSettles
    \/ WrapAsyncResume
    \/ Observe

Spec == Init /\ [][Next]_vars

\* The event loop runs a resumable async function: a settled promise's
\* continuation is a queued microtask, and microtasks are always run.
AsyncNext ==
    \/ WrapAsyncCall
    \/ OpSettles
    \/ WrapAsyncResume
    \/ DoIsOk
    \/ DoIsErr
    \/ DoUnwrap
    \/ Observe

AsyncSpec == Init /\ [][AsyncNext]_vars /\ WF_vars(WrapAsyncResume)

(***************************************************************************)
(* Properties.                                                             *)
(***************************************************************************)
IsTrue(v) == v = Bool(TRUE)
IsBoolean(v) == v \in {Bool(TRUE), Bool(FALSE)}
Receiver == heap[last.recv]
Returned == heap[last.ret.ref]
ReceiverIsOk == last.recv \in Addrs /\ Receiver.cls = "OkImpl"
ReceiverIsErr == last.recv \in Addrs /\ Receiver.cls = "ErrImpl"
ReturnedResult == last.outcome = "return" /\ last.ret \in Refs

\* s occurs in m, at the start of m, at the end of m.
Embeds(m, s) ==
    \E i \in 1..(Len(m) - Len(s) + 1) : SubSeq(m, i, i + Len(s) - 1) = s
StartsWith(m, s) == Len(s) <= Len(m) /\ SubSeq(m, 1, Len(s)) = s
EndsWith(m, s) == Len(s) <= Len(m) /\ SubSeq(m, Len(m) - Len(s) + 1, Len(m)) = s

\* A rendering of a payload as text: String(v).
Rendering(v) ==
    IF v.t = "symbol"
    THEN <<"S", "y", "m", "b", "o", "l", "(", ")">>
    ELSE TemplateToString(v).s

\* C1: every Result on the heap answers exactly one of isOk() and isErr() with
\* true (an Ok isOk, an Err isErr), whichever factory, wrap, wrapAsync or
\* combinator produced it, and no call ever changes the class, the tag fields
\* or the payload of a Result that exists.
C1_TagAndPayloadFixed ==
    /\ [](\A a \in Addrs :
            /\ IsBoolean(isOk(heap, a).ret) /\ IsBoolean(isErr(heap, a).ret)
            /\ IsTrue(isOk(heap, a).ret) # IsTrue(isErr(heap, a).ret)
            /\ IsTrue(isOk(heap, a).ret) <=> heap[a].cls = "OkImpl"
            /\ IsTrue(isErr(heap, a).ret) <=> heap[a].cls = "ErrImpl")
    /\ [][\A a \in Addrs : a \in 1..Len(heap') /\ heap'[a] = heap[a]]_vars

\* map has produced a second Result from an Ok, which is still on the heap.
C1_Witness ==
    /\ last.op = "map" /\ last.f = "typeof" /\ last.outcome = "return"
    /\ ReceiverIsOk
    /\ Len(heap) = 2 /\ last.ret = Ref(2)

\* C2: on an Ok, unwrap() and expect(msg) return the payload; on an Err both
\* throw an Error, unwrap's message embedding a rendering of the payload and
\* expect's message starting with msg and ending with a rendering of it.
C2_UnwrapExpect ==
    last.op \in {"unwrap", "expect"} =>
        IF ReceiverIsOk
        THEN last.outcome = "return" /\ last.ret = Receiver.value
        ELSE /\ last.outcome = "throw"
             /\ last.ret.t = "Error"
             /\ Embeds(last.ret.str, Rendering(Receiver.value))
             /\ last.op = "expect" =>
                    /\ StartsWith(last.ret.str, last.arg.str)
                    /\ EndsWith(last.ret.str, Rendering(Receiver.value))

\* C3: Result.wrap(op) invokes op once and returns (never throws): an Ok
\* holding what op returned, or an Err holding the value op raised, unchanged.
C3_Wrap ==
    last.op = "wrap" =>
        /\ last.fcalls = 1
        /\ ReturnedResult
        /\ last.f = "return" => Returned = OkImpl_new(last.arg)
        /\ last.f = "throw" => Returned = ErrImpl_new(last.arg)

C3_Witness ==
    /\ last.op = "wrap" /\ last.f = "throw" /\ last.arg = ErrorObj(sError)
    /\ ReturnedResult /\ Returned.cls = "ErrImpl"

\* The promise states op's promise can be awaited in once it has settled.
Settled ==
    {[kind |-> "resolved", val |-> Num(42)],
     [kind |-> "resolved", val |-> Undefined],
     [kind |-> "rejected", val |-> ErrorObj(sError)]}

\* wrapAsync's promise has been fulfilled with the Result of an operation that
\* ended as `kind` with the value val.
FulfilledWith(kind, val) ==
    /\ last.op = "wrapAsync" /\ last.outcome = "fulfilled"
    /\ last.f = kind /\ last.arg = val
    /\ last.ret \in Refs
    /\ Returned = IF kind = "resolved" THEN OkImpl_new(val) ELSE ErrImpl_new(val)

\* C4: the promise Result.wrapAsync(op) returned is never rejected; it is
\* fulfilled only when op threw or op's promise has settled, and then with
\* Ok(value) for a resolution and Err(reason) for a rejection or a throw; and
\* once op's promise has settled, the promise is eventually fulfilled so.
C4_WrapAsync ==
    /\ [](last.op = "wrapAsync" =>
            /\ last.outcome \in {"pending", "fulfilled"}
            /\ last.f = "pending" => last.outcome = "pending"
            /\ last.outcome = "fulfilled" =>
                    /\ last.f \in {"threw", "resolved", "rejected"}
                    /\ FulfilledWith(last.f, last.arg))
    /\ \A s \in Settled :
            (task = [pc |-> "awaiting", op |-> s.kind, val |-> s.val])
                ~> FulfilledWith(s.kind, s.val)

\* The promise has been fulfilled with the Err of a rejection.
C4_Witness == FulfilledWith("rejected", ErrorObj(sError))

\* C5: on an Ok, map invokes the mapper once with the payload and, when the
\* mapper returns, gives an Ok holding what it returned; on an Err, map gives
\* an Err holding the same payload and never invokes the mapper.  mapErr is
\* the dual: it maps the payload of an Err and passes an Ok through.
C5_MapMapErr ==
    last.op \in {"map", "mapErr"} =>
        IF (last.op = "map") = ReceiverIsOk
        THEN /\ last.fcalls = 1
             /\ last.farg = Receiver.value
             /\ CallMapper(last.f, Receiver.value).outcome = "return" =>
                    /\ ReturnedResult
                    /\ Returned.cls = Receiver.cls
                    /\ Returned.value = CallMapper(last.f, Receiver.value).val
        ELSE /\ last.fcalls = 0
             /\ ReturnedResult
             /\ Returned.cls = Receiver.cls
             /\ Returned.value = Receiver.value

\* map has passed an Err through, and mapErr has mapped one.
C5_Witness ==
    /\ last.op = "map" /\ last.f = "typeof" /\ ReceiverIsErr /\ ReturnedResult
    /\ Receiver.value = Str(sSymbol)

\* C6: on an Ok, andThen invokes the mapper once with the payload and returns
\* the very Result the mapper returned, not an Ok around it; on an Err it
\* returns an Err holding the same payload and never invokes the mapper.
C6_AndThen ==
    last.op = "andThen" =>
        IF ReceiverIsOk
        THEN /\ last.fcalls = 1
             /\ last.farg = Receiver.value
             /\ last.f = "captured" => ReturnedResult /\ last.ret = Ref(1)
             /\ last.f = "okTypeof" =>
                    /\ ReturnedResult
                    /\ last.ret = Ref(Len(heap))
                    /\ last.ret # Ref(last.recv)
                    /\ Returned = OkImpl_new(Str(TypeOf(Receiver.value)))
             /\ ReturnedResult => last.ret = last.fret
        ELSE /\ last.fcalls = 0
             /\ ReturnedResult
             /\ Returned.cls = "ErrImpl"
             /\ Returned.value = Receiver.value

\* andThen on an Ok has returned the Err its mapper returned.
C6_Witness ==
    /\ last.op = "andThen" /\ last.f = "captured" /\ ReceiverIsOk
    /\ ReturnedResult /\ Returned.cls = "ErrImpl" /\ last.recv = 2

\* What a handler of Result.match returns for a payload.
HandlerReturn(f, v) == CallMapper(f, v).val

\* C7: Result.match never invokes both handlers.  For an Ok it invokes only
\* okHandler, once, with the payload, and returns what it returned; for an Err
\* only errHandler, once, with the error payload; when the handler for the
\* Result's variant is omitted it invokes nothing and returns undefined.
C7_Match ==
    last.op = "match" =>
        /\ last.outcome = "return"
        /\ ~(last.fcalls > 0 /\ last.gcalls > 0)
        /\ ReceiverIsOk =>
                /\ last.gcalls = 0
                /\ last.f = "none" => last.fcalls = 0 /\ last.ret = Undefined
                /\ last.f # "none" =>
                        /\ last.fcalls = 1
                        /\ last.farg = Receiver.value
                        /\ last.ret = HandlerReturn(last.f, Receiver.value)
        /\ ReceiverIsErr =>
                /\ last.fcalls = 0
                /\ last.g = "none" => last.gcalls = 0 /\ last.ret = Undefined
                /\ last.g # "none" =>
                        /\ last.gcalls = 1
                        /\ last.garg = Receiver.value
                        /\ last.ret = HandlerReturn(last.g, Receiver.value)

\* match with both handlers has run on an Err.
C7_Witness ==
    /\ last.op = "match" /\ last.f = "typeof" /\ last.g = "typeof"
    /\ ReceiverIsErr /\ last.gcalls = 1 /\ last.ret = Str(sNumber)

\* A payload is sequence-like when it can be iterated: a string or an array.
SequenceLike(v) == v.t \in {"string", "array"}

\* C8: iterating an Ok whose payload is sequence-like yields the payload's
\* elements in their order and no more; iterating an Ok whose payload is not
\* sequence-like, or an Err, yields no element.
C8_Iteration ==
    last.op = "iterate" =>
        /\ last.outcome = "return"
        /\ last.yielded =
                IF ReceiverIsOk /\ SequenceLike(Receiver.value)
                THEN Elements(Receiver.value)
                ELSE <<>>

\* C9: obtaining the iterator of a Result and stepping it never throws,
\* whatever the payload.
C9_IterationNeverFails == last.op = "iterate" => last.outcome = "return"

C11_ExpectErr ==
    last.op = "expectErr" =>
        IF ReceiverIsErr
        THEN last.outcome = "return" /\ last.ret = Receiver.value
        ELSE last.outcome = "throw" /\ last.ret = ErrorObj(last.arg.str)

\* expectErr has thrown on an Ok that holds an array.
C11_Witness ==
    /\ last.op = "expectErr" /\ ReceiverIsOk /\ Receiver.value.t = "array"
    /\ last.outcome = "throw" /\ last.ret = ErrorObj(sShouldPanic)

\* C12: unwrapOr(fallback) never throws; on an Ok it returns the payload,
\* whatever the fallback, and on an Err it returns the fallback, whatever the
\* error payload.
C12_UnwrapOr ==
    last.op = "unwrapOr" =>
        /\ last.outcome = "return"
        /\ last.ret = IF ReceiverIsOk THEN Receiver.value ELSE last.arg

\* unwrapOr has returned the fallback on an Err that holds a Symbol.
C12_Witness ==
    /\ last.op = "unwrapOr" /\ ReceiverIsErr /\ Receiver.value = Sym
    /\ last.arg = Num(0) /\ last.ret = Num(0)

\* The call invoked its mapper: map on an Ok, mapErr on an Err, andThen on an Ok.
MapperApplies ==
    \/ last.op \in {"map", "andThen"} /\ ReceiverIsOk
    \/ last.op = "mapErr" /\ ReceiverIsErr

\* What the mapper of the last call raised.
MapperRaised ==
    IF last.op = "andThen"
    THEN CallBinder(heap, last.f, Receiver.value).val
    ELSE CallMapper(last.f, Receiver.value).val

\* C13: when the mapper of map (on an Ok), mapErr (on an Err) or andThen (on
\* an Ok) raises, the call throws that same value, returns no Result, and
\* leaves the heap as it was (no instance changed, none created); map, mapErr,
\* andThen, unwrapOr, isOk and isErr throw in no other case.
C13_MapperFailure ==
    /\ [](last.op \in {"map", "mapErr", "andThen", "unwrapOr", "isOk", "isErr"} =>
            /\ last.outcome \in {"return", "throw"}
            /\ last.outcome = "throw" <=> (MapperApplies /\ last.f = "throws")
            /\ last.outcome = "throw" =>
                    /\ last.fcalls = 1
                    /\ last.ret = MapperRaised)
    /\ [][(last'.op \in {"map", "mapErr", "andThen"} /\ last'.outcome = "throw")
            => heap' = heap]_vars

\* The mapper of mapErr has raised on an Err, and the call threw its error.
C13_Witness ==
    /\ last.op = "mapErr" /\ last.f = "throws" /\ ReceiverIsErr
    /\ last.outcome = "throw" /\ last.ret = ErrorObj(sBoom)

====
